---- MODULE Spec2Model ----
(***************************************************************************)
(* TradeScope: chart-analysis client.                                      *)
(*                                                                         *)
(* The module models three layers of the repository:                       *)
(*   - the inference client (services/geminiService.ts): analyzeChart and  *)
(*     its validation of the decoded JSON payload, continueChart;          *)
(*   - the presentation shell (App): upload, analyze, clear, expand;       *)
(*   - the viewer (ChartModal): zoom/pan state, view switching, the        *)
(*     continuation request and the delayed reset scheduled on close.      *)
(*                                                                         *)
(* JavaScript values are records tagged by their typeof-like kind, so that *)
(* truthiness (!v), typeof v === 'number' and Array.includes are computed  *)
(* as the language computes them.                                          *)
(***************************************************************************)
EXTENDS Integers, Sequences, FiniteSets, TLC

VARIABLES
  \* ---- App (useState hooks) ----
  imageFile,          \* File | null
  imageBase64,        \* string | null
  analysis,           \* AnalysisResult | null
  isLoading,          \* boolean
  error,              \* string | null
  isModalOpen,        \* boolean
  \* ---- asynchronous work in flight ----
  reads,              \* pending FileReader reads, per file: number outstanding
  analyzeReqs,        \* analyzeChart calls issued and not yet settled
  contReqs,           \* continueChart calls issued and not yet settled, whose
                      \* issuing ChartModal instance is still mounted
  detached,           \* number of continueChart calls not yet settled whose
                      \* issuing ChartModal instance has been unmounted
  timers,             \* pending 300 ms reset timers of the mounted ChartModal
  continueCalls,      \* history: continueChart calls issued for the current analysis
  analyzedWith,       \* history: the analyzeChart call whose result is held in analysis
  \* ---- ChartModal (useState / useRef hooks) ----
  scale,
  position,
  isDragging,
  dragStartPos,
  isGenerating,
  continuedImageSrc,
  viewingOriginal,
  generationError,
  \* ---- service harness: one decoded payload or one generateContent response,
  \*      and the outcome of analyzeChart or continueChart on it ----
  payload,
  response,
  outcome

vars == << imageFile, imageBase64, analysis, isLoading, error, isModalOpen,
           reads, analyzeReqs, contReqs, detached, timers, continueCalls,
           analyzedWith,
           scale, position, isDragging, dragStartPos,
           isGenerating, continuedImageSrc, viewingOriginal, generationError,
           payload, response, outcome >>

appVars    == << imageFile, imageBase64, analysis, isLoading, error, isModalOpen >>
flightVars == << reads, analyzeReqs, contReqs, detached, timers, continueCalls,
                 analyzedWith >>
viewVars   == << scale, position, isDragging, dragStartPos >>
genVars    == << isGenerating, continuedImageSrc, viewingOriginal, generationError >>
harnessVars == << payload, response, outcome >>

(***************************************************************************)
(* JavaScript values                                                       *)
(***************************************************************************)
Undefined == [t |-> "undefined"]
JNull     == [t |-> "null"]
Str(s)    == [t |-> "string", s |-> s]
Num(n)    == [t |-> "number", n |-> n]
Obj(o)    == [t |-> "object", o |-> o]

\* v.f : property access; a property that is absent reads as undefined.
Get(v, f) ==
  IF v.t = "object" /\ f \in DOMAIN v.o THEN v.o[f] ELSE Undefined

\* ToBoolean(v), as used by the ! operator.
Truthy(v) ==
  CASE v.t = "undefined" -> FALSE
    [] v.t = "null"      -> FALSE
    [] v.t = "string"    -> v.s # ""
    [] v.t = "number"    -> v.n # 0
    [] OTHER             -> TRUE

\* typeof v === 'number'
TypeofNumber(v) == v.t = "number"

(***************************************************************************)
(* types.ts                                                                *)
(***************************************************************************)
\* Object.values(Recommendation)
Recommendation == << "BUY", "SELL", "HOLD" >>

\* Array.prototype.includes over Object.values(Recommendation)
RecommendationIncludes(v) ==
  v.t = "string" /\ \E i \in 1..Len(Recommendation) : Recommendation[i] = v.s

(***************************************************************************)
(* services/geminiService.ts : analyzeChart                                *)
(***************************************************************************)
\* A service response: the call failed, or it carries a text payload that
\* JSON.parse either rejects or decodes to a value.
ServiceError(m) == [kind |-> "error", message |-> m]
MalformedText   == [kind |-> "text", parses |-> FALSE, json |-> Undefined]
JsonText(v)     == [kind |-> "text", parses |-> TRUE, json |-> v]

Resolve(v) == [ok |-> TRUE, value |-> v, message |-> ""]
Reject(m)  == [ok |-> FALSE, value |-> JNull, message |-> m]
NoOutcome  == [ok |-> FALSE, value |-> JNull, message |-> "(not run)"]

InvalidStructureMessage == "Invalid analysis data structure received from API."
SyntaxErrorMessage == "Unexpected token in JSON"
TypeErrorMessage   == "Cannot read properties of null"
AnalyzePrefix  == "Failed to analyze chart: "

\* RecommendationCheckMutant: the enum membership test is left out.
InvalidStructureNoEnum(result) ==
  \/ ~Truthy(Get(result, "prediction"))
  \/ ~Truthy(Get(result, "recommendation"))
  \/ ~TypeofNumber(Get(result, "confidence"))
  \/ ~Truthy(Get(result, "rationale"))
  \/ ~Truthy(Get(result, "annotation"))
  \/ ~Truthy(Get(Get(result, "annotation"), "type"))
  \/ ~Truthy(Get(Get(result, "annotation"), "start"))
  \/ ~TypeofNumber(Get(Get(Get(result, "annotation"), "start"), "x"))
  \/ ~TypeofNumber(Get(Get(Get(result, "annotation"), "start"), "y"))
  \/ ~Truthy(Get(Get(result, "annotation"), "end"))
  \/ ~TypeofNumber(Get(Get(Get(result, "annotation"), "end"), "x"))
  \/ ~TypeofNumber(Get(Get(Get(result, "annotation"), "end"), "y"))

\* The condition of the if statement that throws 'Invalid analysis data
\* structure received from API.'
InvalidStructure(result) ==
  \/ ~Truthy(Get(result, "prediction"))
  \/ ~Truthy(Get(result, "recommendation"))
  \/ ~RecommendationIncludes(Get(result, "recommendation"))
  \/ ~TypeofNumber(Get(result, "confidence"))
  \/ ~Truthy(Get(result, "rationale"))
  \/ ~Truthy(Get(result, "annotation"))
  \/ ~Truthy(Get(Get(result, "annotation"), "type"))
  \/ ~Truthy(Get(Get(result, "annotation"), "start"))
  \/ ~TypeofNumber(Get(Get(Get(result, "annotation"), "start"), "x"))
  \/ ~TypeofNumber(Get(Get(Get(result, "annotation"), "start"), "y"))
  \/ ~Truthy(Get(Get(result, "annotation"), "end"))
  \/ ~TypeofNumber(Get(Get(Get(result, "annotation"), "end"), "x"))
  \/ ~TypeofNumber(Get(Get(Get(result, "annotation"), "end"), "y"))

\* analyzeChart whose catch block rethrows the error it caught: a service
\* error and a parse error keep their own message.
analyzeChartRethrows(resp) ==
  IF resp.kind = "error"
    THEN Reject(resp.message)
  ELSE IF ~resp.parses
    THEN Reject(SyntaxErrorMessage)
  ELSE IF resp.json.t \in {"null", "undefined"}
    THEN Reject(AnalyzePrefix \o TypeErrorMessage)
  ELSE IF InvalidStructure(resp.json)
    THEN Reject(AnalyzePrefix \o InvalidStructureMessage)
  ELSE Resolve(resp.json)

\* The promise analyzeChart returns, as a function of the service response.
analyzeChart(resp) ==
  IF resp.kind = "error"
    THEN Reject(AnalyzePrefix \o resp.message)
  ELSE IF ~resp.parses
    THEN Reject(AnalyzePrefix \o SyntaxErrorMessage)
  ELSE IF resp.json.t \in {"null", "undefined"}
    THEN Reject(AnalyzePrefix \o TypeErrorMessage)
  ELSE IF InvalidStructure(resp.json)
    THEN Reject(AnalyzePrefix \o InvalidStructureMessage)
  ELSE Resolve(resp.json)

(***************************************************************************)
(* services/geminiService.ts : continueChart                               *)
(***************************************************************************)
\* A generateContent response: candidates, each a sequence of content parts.
Content(candidates) == [kind |-> "content", message |-> "", candidates |-> candidates]
ContentError(m)     == [kind |-> "error", message |-> m, candidates |-> << >>]
TextPart(s)   == Obj([text |-> Str(s)])
ImagePart(d)  == Obj([inlineData |-> Obj([data |-> Str(d)])])

NoImageMessage  == "No image was generated in the response."
ContinuePrefix  == "Failed to continue chart: "
UndefinedTypeErrorMessage == "Cannot read properties of undefined"

\* for (const part of parts) if (part.inlineData) return part.inlineData.data
RECURSIVE ScanParts(_, _)
ScanParts(parts, i) ==
  IF i > Len(parts)
    THEN Reject(ContinuePrefix \o NoImageMessage)
  ELSE IF Truthy(Get(parts[i], "inlineData"))
    THEN Resolve(Get(Get(parts[i], "inlineData"), "data"))
  ELSE ScanParts(parts, i + 1)

\* The promise continueChart returns, as a function of the service response.
continueChart(resp) ==
  IF resp.kind = "error"
    THEN Reject(ContinuePrefix \o resp.message)
  ELSE IF Len(resp.candidates) = 0
    THEN Reject(ContinuePrefix \o UndefinedTypeErrorMessage)
  ELSE ScanParts(resp.candidates[1], 1)

(***************************************************************************)
(* Environment: files the user can pick, what the service can answer       *)
(***************************************************************************)
PngFile  == [name |-> "chart.png", type |-> "image/png",  content |-> "iVBORw0KGgo"]
JpegFile == [name |-> "chart.jpg", type |-> "image/jpeg", content |-> "9j4AAQSkZJRg"]
Files == {PngFile, JpegFile}

\* FileReader.readAsDataURL: "data:<type>;base64,<content>", kept as the
\* sequence of its comma-separated pieces.
readAsDataURL(file) == << "data:" \o file.type \o ";base64", file.content >>

\* result.split(',')[1]
fileToBase64(file) == readAsDataURL(file)[2]

Point(x, y) == Obj([x |-> Num(x), y |-> Num(y)])

HoldPayload ==
  Obj([prediction |-> Str("sideways drift"), recommendation |-> Str("HOLD"),
       confidence |-> Num(55), rationale |-> Str("range-bound"),
       annotation |-> Obj([type |-> Str("line"),
                           start |-> Point(10, 50), end |-> Point(90, 55)])])

BuyPayload ==
  Obj([prediction |-> Str("breakout"), recommendation |-> Str("BUY"),
       confidence |-> Num(150), rationale |-> Str("higher lows"),
       annotation |-> Obj([type |-> Str("arrow"),
                           start |-> Point(0, 80), end |-> Point(100, 20)])])

StrongBuyPayload ==
  Obj([prediction |-> Str("breakout"), recommendation |-> Str("STRONG_BUY"),
       confidence |-> Num(90), rationale |-> Str("higher lows"),
       annotation |-> Obj([type |-> Str("arrow"),
                           start |-> Point(0, 80), end |-> Point(100, 20)])])

AnalyzeResponses ==
  { ServiceError("503 Service Unavailable"), MalformedText,
    JsonText(HoldPayload), JsonText(BuyPayload), JsonText(StrongBuyPayload) }

ContinueResponses ==
  { ContentError("429 quota exceeded"),
    Content(<< << TextPart("here is the chart") >> >>),
    Content(<< << TextPart("here is the chart"), ImagePart("R0lGODlh") >> >>) }

(***************************************************************************)
(* Bounds                                                                  *)
(***************************************************************************)
MaxReads    == 2   \* file reads pending at once
MaxContReqs == 2   \* continueChart calls outstanding at once
MaxTimers   == 2   \* reset timers pending at once
MaxCalls    == 2   \* continueChart calls issued for one analysis result
MaxOffset   == 16  \* |position.x|, |position.y| explored

(***************************************************************************)
(* Helpers                                                                 *)
(***************************************************************************)
RemoveAt(s, i) == [j \in 1..(Len(s) - 1) |-> IF j < i THEN s[j] ELSE s[j + 1]]

TotalReads == LET RECURSIVE Sum(_)
                  Sum(S) == IF S = {} THEN 0
                            ELSE LET f == CHOOSE f \in S : TRUE
                                 IN reads[f] + Sum(S \ {f})
              IN Sum(Files)

Origin == [x |-> 0, y |-> 0]

\* The arguments of an analyzeChart call; NoCall while analysis is null.
Call(data, mime) == [data |-> data, mime |-> mime]
NoCall == [data |-> "", mime |-> ""]

(***************************************************************************)
(* ChartModal: mounting                                                    *)
(***************************************************************************)
\* {imageFile && analysis && imageBase64 && <ChartModal .../>}
Mounted == imageFile # JNull /\ Truthy(analysis) /\ Truthy(imageBase64)

\* The modal renders something only when (isOpen && result).
Visible == Mounted /\ isModalOpen

\* useState / useRef initial values of a fresh ChartModal instance.
ModalInitial ==
  /\ scale' = 1
  /\ position' = Origin
  /\ isDragging' = FALSE
  /\ dragStartPos' = Origin
  /\ isGenerating' = FALSE
  /\ continuedImageSrc' = JNull
  /\ viewingOriginal' = TRUE
  /\ generationError' = JNull

\* Effect of an App state change on the ChartModal element.  Unmounting
\* discards the instance: its state is gone, and its timers and the
\* completions of its continueChart calls no longer reach any state; the calls
\* themselves stay outstanding and are counted in detached.  Mounting creates
\* a fresh instance whose effect runs with isOpen = false and schedules one
\* reset timer.
ModalLifecycle ==
  IF Mounted /\ ~Mounted'
    THEN /\ ModalInitial
         /\ timers' = 0
         /\ contReqs' = << >>
         /\ detached' = detached + Len(contReqs)
         /\ continueCalls' = 0
  ELSE IF ~Mounted /\ Mounted'
    THEN /\ ModalInitial
         /\ timers' = IF isModalOpen' THEN 0 ELSE 1
         /\ continueCalls' = 0
         /\ UNCHANGED << contReqs, detached >>
  ELSE UNCHANGED << viewVars, genVars, timers, contReqs, detached, continueCalls >>

(***************************************************************************)
(* App                                                                     *)
(***************************************************************************)
PleaseUploadMessage == "Please upload an image first."
CouldNotProcessMessage == "Could not process the image file."

\* App.handleReset: the six setters.
handleReset ==
  /\ imageFile' = JNull
  /\ imageBase64' = JNull
  /\ analysis' = JNull
  /\ isLoading' = FALSE
  /\ error' = JNull
  /\ isModalOpen' = FALSE

\* The Clear button: rendered with the preview, disabled while loading, and
\* covered by the viewer while the viewer is shown.
ClearClick ==
  /\ imageFile # JNull
  /\ ~isLoading
  /\ ~Visible
  /\ handleReset
  /\ analyzedWith' = NoCall
  /\ ModalLifecycle
  /\ UNCHANGED << reads, analyzeReqs, harnessVars >>

\* handleImageUpload up to its await: the uploader is rendered only while no
\* file is selected.
handleImageUpload(file) ==
  /\ imageFile = JNull
  /\ TotalReads < MaxReads
  /\ imageFile' = file
  /\ imageBase64' = JNull
  /\ analysis' = JNull
  /\ isLoading' = FALSE
  /\ error' = JNull
  /\ isModalOpen' = FALSE
  /\ reads' = [reads EXCEPT ![file] = @ + 1]
  /\ analyzedWith' = NoCall
  /\ ModalLifecycle
  /\ UNCHANGED << analyzeReqs, harnessVars >>

\* handleImageUpload after its await, the read succeeded.
ReadDone(file) ==
  /\ reads[file] > 0
  /\ reads' = [reads EXCEPT ![file] = @ - 1]
  /\ imageBase64' = Str(fileToBase64(file))
  /\ UNCHANGED << imageFile, analysis, isLoading, error, isModalOpen >>
  /\ ModalLifecycle
  /\ UNCHANGED << analyzeReqs, analyzedWith, harnessVars >>

\* handleImageUpload after its await, the read failed (reader.onerror).
ReadFail(file) ==
  /\ reads[file] > 0
  /\ reads' = [reads EXCEPT ![file] = @ - 1]
  /\ error' = Str(CouldNotProcessMessage)
  /\ UNCHANGED << imageFile, imageBase64, analysis, isLoading, isModalOpen >>
  /\ ModalLifecycle
  /\ UNCHANGED << analyzeReqs, analyzedWith, harnessVars >>

\* handleAnalyzeClick without the two setters that clear the previous outcome.
handleAnalyzeClickKeepsResult ==
  /\ imageFile # JNull
  /\ ~isLoading
  /\ ~Visible
  /\ IF ~Truthy(imageBase64) \/ imageFile = JNull
       THEN /\ error' = Str(PleaseUploadMessage)
            /\ UNCHANGED << imageFile, imageBase64, analysis, isLoading, isModalOpen >>
            /\ UNCHANGED << analyzeReqs, analyzedWith >>
       ELSE /\ isLoading' = TRUE
            /\ UNCHANGED << error, analysis, analyzedWith >>
            /\ analyzeReqs' = Append(analyzeReqs, Call(imageBase64.s, imageFile.type))
            /\ UNCHANGED << imageFile, imageBase64, isModalOpen >>
  /\ ModalLifecycle
  /\ UNCHANGED << reads, harnessVars >>

\* handleAnalyzeClick with setIsLoading(true) placed before the guard.
handleAnalyzeClickBusyBeforeGuard ==
  /\ imageFile # JNull
  /\ ~isLoading
  /\ ~Visible
  /\ IF ~Truthy(imageBase64) \/ imageFile = JNull
       THEN /\ isLoading' = TRUE
            /\ error' = Str(PleaseUploadMessage)
            /\ UNCHANGED << imageFile, imageBase64, analysis, isModalOpen >>
            /\ UNCHANGED << analyzeReqs, analyzedWith >>
       ELSE /\ isLoading' = TRUE
            /\ error' = JNull
            /\ analysis' = JNull
            /\ analyzedWith' = NoCall
            /\ analyzeReqs' = Append(analyzeReqs, Call(imageBase64.s, imageFile.type))
            /\ UNCHANGED << imageFile, imageBase64, isModalOpen >>
  /\ ModalLifecycle
  /\ UNCHANGED << reads, harnessVars >>

\* handleAnalyzeClick up to its await.  The Analyze button is rendered with
\* the preview, disabled while loading, and covered by the viewer while the
\* viewer is shown.
handleAnalyzeClick ==
  /\ imageFile # JNull
  /\ ~isLoading
  /\ ~Visible
  /\ IF ~Truthy(imageBase64) \/ imageFile = JNull
       THEN /\ error' = Str(PleaseUploadMessage)
            /\ UNCHANGED << imageFile, imageBase64, analysis, isLoading, isModalOpen >>
            /\ UNCHANGED << analyzeReqs, analyzedWith >>
       ELSE /\ isLoading' = TRUE
            /\ error' = JNull
            /\ analysis' = JNull
            /\ analyzedWith' = NoCall
            /\ analyzeReqs' = Append(analyzeReqs, Call(imageBase64.s, imageFile.type))
            /\ UNCHANGED << imageFile, imageBase64, isModalOpen >>
  /\ ModalLifecycle
  /\ UNCHANGED << reads, harnessVars >>

\* handleAnalyzeClick after its await, with the result stored whatever the
\* validation said.
AnalyzeSettleStoresPayload(i, resp) ==
  /\ i \in 1..Len(analyzeReqs)
  /\ LET r == analyzeChart(resp)
     IN IF r.ok
          THEN analysis' = r.value /\ analyzedWith' = analyzeReqs[i] /\ UNCHANGED error
          ELSE /\ error' = Str(r.message)
               /\ analysis' = (IF resp.kind = "text" THEN resp.json ELSE analysis)
               /\ UNCHANGED analyzedWith
  /\ isLoading' = FALSE
  /\ analyzeReqs' = RemoveAt(analyzeReqs, i)
  /\ UNCHANGED << imageFile, imageBase64, isModalOpen >>
  /\ ModalLifecycle
  /\ UNCHANGED << reads, harnessVars >>

\* handleAnalyzeClick after its await with setIsLoading(false) at the end of
\* the try block instead of in a finally block.
AnalyzeSettleNoFinally(i, resp) ==
  /\ i \in 1..Len(analyzeReqs)
  /\ LET r == analyzeChart(resp)
     IN IF r.ok
          THEN /\ analysis' = r.value
               /\ analyzedWith' = analyzeReqs[i]
               /\ isLoading' = FALSE
               /\ UNCHANGED error
          ELSE /\ error' = Str(r.message)
               /\ UNCHANGED << analysis, analyzedWith, isLoading >>
  /\ analyzeReqs' = RemoveAt(analyzeReqs, i)
  /\ UNCHANGED << imageFile, imageBase64, isModalOpen >>
  /\ ModalLifecycle
  /\ UNCHANGED << reads, harnessVars >>

\* handleAnalyzeClick after its await: the service answered the call with
\* resp, then try / catch / finally.
AnalyzeSettle(i, resp) ==
  /\ i \in 1..Len(analyzeReqs)
  /\ LET r == analyzeChart(resp)
     IN IF r.ok
          THEN analysis' = r.value /\ analyzedWith' = analyzeReqs[i] /\ UNCHANGED error
          ELSE error' = Str(r.message) /\ UNCHANGED << analysis, analyzedWith >>
  /\ isLoading' = FALSE
  /\ analyzeReqs' = RemoveAt(analyzeReqs, i)
  /\ UNCHANGED << imageFile, imageBase64, isModalOpen >>
  /\ ModalLifecycle
  /\ UNCHANGED << reads, harnessVars >>

\* onClick of the preview: analysis && setIsModalOpen(true).
PreviewClick ==
  /\ imageFile # JNull
  /\ ~Visible
  /\ isModalOpen' = (IF Truthy(analysis) THEN TRUE ELSE isModalOpen)
  /\ UNCHANGED << imageFile, imageBase64, analysis, isLoading, error >>
  /\ UNCHANGED << flightVars, viewVars, genVars, harnessVars >>

(***************************************************************************)
(* ChartModal                                                              *)
(***************************************************************************)
MIN_SCALE == 1
MAX_SCALE == 8
\* ZOOM_SENSITIVITY = 0.002 = ZoomSensitivityNum / ZoomSensitivityDen
ZoomSensitivityNum == 2
ZoomSensitivityDen == 1000

\* containerRef.current.getBoundingClientRect()
ContainerRect == [left |-> 8, top |-> 16]

\* Pointer positions (clientX, clientY) and wheel deltas the user produces.
\* The wheel deltas scale by powers of two (or overshoot the clamp), and a
\* wheel event is explored when the position it yields is a whole number of
\* pixels (WholePixels); the quotients below are then exact, as they are in
\* the double arithmetic of the code.
ClientPoints == { [x |-> 8, y |-> 24], [x |-> 16, y |-> 16] }
WheelDeltas  == { -3500, -500, 250, 1000 }

\* The inputs explored together with the continuation and the close timer.
ViewerClientPoints == { [x |-> 8, y |-> 16], [x |-> 16, y |-> 24] }
ViewerWheelDeltas  == { -1500, 1000 }

\* The inputs explored together with the whole application.
AppClientPoints == { [x |-> 8, y |-> 16] }
AppWheelDeltas  == { -3500, 1000 }

InRange(p) == /\ p.x >= -MaxOffset /\ p.x <= MaxOffset
              /\ p.y >= -MaxOffset /\ p.y <= MaxOffset

\* URL.createObjectURL(imageFile), the imageSrc prop.
imageSrc == Str("blob:" \o imageFile.name)

\* The image the viewer shows.
displayImageSrc ==
  IF viewingOriginal \/ ~Truthy(continuedImageSrc) THEN imageSrc ELSE continuedImageSrc

\* The rendered size of the zoom container (w-full h-full), in pixels.
BoxSize == [width |-> 200, height |-> 100]

\* The transformed div: transform-origin 0 0,
\* transform: scale(s) translate(position.x / s px, position.y / s px).
\* A point p of the div is shown at s * (p + position / s), computed as
\* s * ((p * s + position) / s).
Transform(p) ==
  [x |-> (scale * (p.x * scale + position.x)) \div scale,
   y |-> (scale * (p.y * scale + position.y)) \div scale]

\* The svg of the overlay fills the div, with viewBox="0 0 100 100" and
\* preserveAspectRatio="none".
ViewBoxToBox(p) ==
  [x |-> (p.x * BoxSize.width) \div 100, y |-> (p.y * BoxSize.height) \div 100]

\* {annotation && viewingOriginal && <svg ...>}
OverlayShown ==
  Visible /\ Truthy(Get(analysis, "annotation")) /\ viewingOriginal

\* The <line> element of the overlay, in viewBox coordinates.
OverlayLine ==
  LET annotation == Get(analysis, "annotation")
  IN [x1 |-> Get(Get(annotation, "start"), "x").n,
      y1 |-> Get(Get(annotation, "start"), "y").n,
      x2 |-> Get(Get(annotation, "end"), "x").n,
      y2 |-> Get(Get(annotation, "end"), "y").n,
      markerEnd |-> "url(#arrowhead)"]

\* Where the two ends of the overlay line are shown, in container pixels.
OverlayStartOnScreen == Transform(ViewBoxToBox([x |-> OverlayLine.x1, y |-> OverlayLine.y1]))
OverlayEndOnScreen   == Transform(ViewBoxToBox([x |-> OverlayLine.x2, y |-> OverlayLine.y2]))

\* ChartModal.handleReset with only setScale(1).
ResetViewportKeepsOffset ==
  /\ scale' = 1
  /\ UNCHANGED position

\* ChartModal.handleReset
ResetViewport ==
  /\ scale' = 1
  /\ position' = Origin

\* The Reset view button.  It is a <button> of the control bar: it keeps the
\* keyboard focus while the pointer drags in the zoom container (handleMouseDown
\* calls preventDefault), so it can be activated in the middle of a drag.
ResetClick ==
  /\ Visible
  /\ ResetViewport
  /\ UNCHANGED << isDragging, dragStartPos, genVars, appVars, flightVars, harnessVars >>

\* Clicking the Original thumbnail.  The pointer is outside the zoom
\* container, which it left through onMouseLeave = handleMouseUp.
viewOriginal ==
  /\ Visible
  /\ ~isDragging
  /\ IF ~viewingOriginal
       THEN viewingOriginal' = TRUE /\ ResetViewport
       ELSE UNCHANGED << viewingOriginal, scale, position >>
  /\ UNCHANGED << isDragging, dragStartPos, isGenerating, continuedImageSrc,
                  generationError, appVars, flightVars, harnessVars >>

\* viewPredicted without its call of handleReset.
viewPredictedKeepsViewport ==
  /\ Visible
  /\ ~isDragging
  /\ Truthy(continuedImageSrc)
  /\ IF viewingOriginal /\ Truthy(continuedImageSrc)
       THEN viewingOriginal' = FALSE /\ UNCHANGED << scale, position >>
       ELSE UNCHANGED << viewingOriginal, scale, position >>
  /\ UNCHANGED << isDragging, dragStartPos, isGenerating, continuedImageSrc,
                  generationError, appVars, flightVars, harnessVars >>

\* Clicking the Predicted thumbnail, rendered once continuedImageSrc is set.
viewPredicted ==
  /\ Visible
  /\ ~isDragging
  /\ Truthy(continuedImageSrc)
  /\ IF viewingOriginal /\ Truthy(continuedImageSrc)
       THEN viewingOriginal' = FALSE /\ ResetViewport
       ELSE UNCHANGED << viewingOriginal, scale, position >>
  /\ UNCHANGED << isDragging, dragStartPos, isGenerating, continuedImageSrc,
                  generationError, appVars, flightVars, harnessVars >>

\* onClose (backdrop or Close button), and the effect that follows the render
\* with isOpen = false: it schedules the 300 ms reset.
CloseClick ==
  /\ Visible
  /\ timers < MaxTimers
  /\ isModalOpen' = FALSE
  /\ timers' = timers + 1
  /\ UNCHANGED << imageFile, imageBase64, analysis, isLoading, error >>
  /\ UNCHANGED << reads, analyzeReqs, contReqs, detached, continueCalls, analyzedWith,
                  viewVars, genVars, harnessVars >>

\* The setTimeout callback of the effect.
CloseTimerFires ==
  /\ timers > 0
  /\ timers' = timers - 1
  /\ ResetViewport
  /\ continuedImageSrc' = JNull
  /\ viewingOriginal' = TRUE
  /\ isGenerating' = FALSE
  /\ generationError' = JNull
  /\ UNCHANGED << isDragging, dragStartPos, appVars, reads, analyzeReqs, contReqs,
                  detached, continueCalls, analyzedWith, harnessVars >>

\* handleMouseDown without its early return at scale 1.
handleMouseDownAtAnyScale(c) ==
  /\ Visible
  /\ isDragging' = TRUE
  /\ dragStartPos' = [x |-> c.x - position.x, y |-> c.y - position.y]
  /\ UNCHANGED << scale, position, genVars, appVars, flightVars, harnessVars >>

handleMouseDown(c) ==
  /\ Visible
  /\ IF scale = 1
       THEN UNCHANGED << isDragging, dragStartPos >>
       ELSE /\ isDragging' = TRUE
            /\ dragStartPos' = [x |-> c.x - position.x, y |-> c.y - position.y]
  /\ UNCHANGED << scale, position, genVars, appVars, flightVars, harnessVars >>

\* onMouseUp and onMouseLeave
handleMouseUp ==
  /\ Visible
  /\ isDragging' = FALSE
  /\ UNCHANGED << scale, position, dragStartPos, genVars, appVars, flightVars,
                  harnessVars >>

handleMouseMove(c) ==
  /\ Visible
  /\ IF ~isDragging
       THEN UNCHANGED position
       ELSE LET new == [x |-> c.x - dragStartPos.x, y |-> c.y - dragStartPos.y]
            IN InRange(new) /\ position' = new
  /\ UNCHANGED << scale, isDragging, dragStartPos, genVars, appVars, flightVars,
                  harnessVars >>

\* NewScale with the upper clamp left out: Math.max(MIN_SCALE, scale * (1 + delta)).
NewScaleNoUpperClamp(s, deltaY) ==
  LET num == s * (ZoomSensitivityDen - deltaY * ZoomSensitivityNum)
  IN IF num <= MIN_SCALE * ZoomSensitivityDen THEN MIN_SCALE
     ELSE num \div ZoomSensitivityDen

\* Math.max(MIN_SCALE, Math.min(MAX_SCALE, scale * (1 + delta))) with
\* delta = -deltaY * ZOOM_SENSITIVITY, over the rationals.
NewScale(s, deltaY) ==
  LET num == s * (ZoomSensitivityDen - deltaY * ZoomSensitivityNum)
  IN IF num >= MAX_SCALE * ZoomSensitivityDen THEN MAX_SCALE
     ELSE IF num <= MIN_SCALE * ZoomSensitivityDen THEN MIN_SCALE
     ELSE num \div ZoomSensitivityDen

\* ZoomPosition with the pointer taken in client coordinates: the container's
\* rect is not subtracted.
ZoomPositionClientCoords(s, pos, c, newScale) ==
  LET mouseX == c.x
      mouseY == c.y
      imageXTimesNewScale == ((mouseX - pos.x) * newScale) \div s
      imageYTimesNewScale == ((mouseY - pos.y) * newScale) \div s
  IN [x |-> mouseX - imageXTimesNewScale, y |-> mouseY - imageYTimesNewScale]

\* imageX * newScale and imageY * newScale are whole numbers.
WholePixels(s, pos, c, newScale) ==
  /\ ((c.x - ContainerRect.left - pos.x) * newScale) % s = 0
  /\ ((c.y - ContainerRect.top - pos.y) * newScale) % s = 0

\* The position handleWheel computes for pointer c and the new scale:
\* imageX = (mouseX - position.x) / scale, newX = mouseX - imageX * newScale.
ZoomPosition(s, pos, c, newScale) ==
  LET mouseX == c.x - ContainerRect.left
      mouseY == c.y - ContainerRect.top
      imageXTimesNewScale == ((mouseX - pos.x) * newScale) \div s
      imageYTimesNewScale == ((mouseY - pos.y) * newScale) \div s
  IN [x |-> mouseX - imageXTimesNewScale, y |-> mouseY - imageYTimesNewScale]

handleWheel(deltaY, c) ==
  /\ Visible
  /\ LET newScale == NewScale(scale, deltaY)
     IN IF newScale = scale
          THEN UNCHANGED << scale, position >>
          ELSE /\ WholePixels(scale, position, c, newScale)
               /\ InRange(ZoomPosition(scale, position, c, newScale))
               /\ scale' = newScale
               /\ position' = ZoomPosition(scale, position, c, newScale)
  /\ UNCHANGED << isDragging, dragStartPos, genVars, appVars, flightVars, harnessVars >>

\* handleGenerateContinuation behind a button that is rendered and enabled
\* whatever continuedImageSrc and isGenerating are, and without the early return.
handleGenerateContinuationUnguarded ==
  /\ Visible
  /\ Len(contReqs) + detached < MaxContReqs
  /\ continueCalls < MaxCalls
  /\ isGenerating' = TRUE
  /\ continueCalls' = continueCalls + 1
  /\ generationError' = JNull
  /\ contReqs' = Append(contReqs,
       [data |-> imageBase64.s, mime |-> imageFile.type,
        analysis |-> analysis])
  /\ UNCHANGED << continuedImageSrc, viewingOriginal, viewVars, appVars, reads,
                  analyzeReqs, detached, timers, analyzedWith, harnessVars >>

\* The Generate Continuation button: rendered while continuedImageSrc is
\* empty, disabled while isGenerating.  handleGenerateContinuation up to its
\* await.
handleGenerateContinuation ==
  /\ Visible
  /\ ~Truthy(continuedImageSrc)
  /\ ~isGenerating
  /\ Len(contReqs) + detached < MaxContReqs
  /\ continueCalls < MaxCalls
  /\ IF ~Truthy(analysis) \/ isGenerating
       THEN UNCHANGED << isGenerating, generationError, contReqs, continueCalls >>
       ELSE /\ isGenerating' = TRUE
            /\ continueCalls' = continueCalls + 1
            /\ generationError' = JNull
            /\ contReqs' = Append(contReqs,
                 [data |-> imageBase64.s, mime |-> imageFile.type,
                  analysis |-> analysis])
  /\ UNCHANGED << continuedImageSrc, viewingOriginal, viewVars, appVars, reads,
                  analyzeReqs, detached, timers, analyzedWith, harnessVars >>

\* ContinueSettle whose catch block also goes back to the original image at
\* rest: setViewingOriginal(true) and handleReset().
ContinueSettleFailureResets(i, resp) ==
  /\ i \in 1..Len(contReqs)
  /\ contReqs' = RemoveAt(contReqs, i)
  /\ LET r == continueChart(resp)
     IN IF r.ok
          THEN /\ continuedImageSrc' = Str("data:image/png;base64," \o r.value.s)
               /\ viewingOriginal' = FALSE
               /\ ResetViewport
               /\ isGenerating' = FALSE
               /\ UNCHANGED << isDragging, dragStartPos, generationError >>
          ELSE /\ generationError' = Str(r.message)
               /\ isGenerating' = FALSE
               /\ viewingOriginal' = TRUE
               /\ ResetViewport
               /\ UNCHANGED << isDragging, dragStartPos, continuedImageSrc >>
  /\ UNCHANGED << appVars, reads, analyzeReqs, detached, timers, continueCalls,
                  analyzedWith, harnessVars >>

\* handleGenerateContinuation after its await, in a mounted instance: the
\* service answered the call with resp, then try / catch / finally.
ContinueSettle(i, resp) ==
  /\ i \in 1..Len(contReqs)
  /\ contReqs' = RemoveAt(contReqs, i)
  /\ LET r == continueChart(resp)
     IN IF r.ok
          THEN /\ continuedImageSrc' = Str("data:image/png;base64," \o r.value.s)
               /\ viewingOriginal' = FALSE
               /\ ResetViewport
               /\ isGenerating' = FALSE
               /\ UNCHANGED << isDragging, dragStartPos, generationError >>
          ELSE /\ generationError' = Str(r.message)
               /\ isGenerating' = FALSE
               /\ UNCHANGED << viewVars, continuedImageSrc, viewingOriginal >>
  /\ UNCHANGED << appVars, reads, analyzeReqs, detached, timers, continueCalls,
                  analyzedWith, harnessVars >>

\* handleGenerateContinuation after its await, in an instance that has been
\* unmounted: its setters reach no state.
DetachedSettle ==
  /\ detached > 0
  /\ detached' = detached - 1
  /\ UNCHANGED << appVars, reads, analyzeReqs, contReqs, timers, continueCalls,
                  analyzedWith, viewVars, genVars, harnessVars >>

(***************************************************************************)
(* Specification of the application                                        *)
(***************************************************************************)
Init ==
  /\ imageFile = JNull
  /\ imageBase64 = JNull
  /\ analysis = JNull
  /\ isLoading = FALSE
  /\ error = JNull
  /\ isModalOpen = FALSE
  /\ reads = [f \in Files |-> 0]
  /\ analyzeReqs = << >>
  /\ contReqs = << >>
  /\ detached = 0
  /\ timers = 0
  /\ continueCalls = 0
  /\ analyzedWith = NoCall
  /\ scale = 1
  /\ position = Origin
  /\ isDragging = FALSE
  /\ dragStartPos = Origin
  /\ isGenerating = FALSE
  /\ continuedImageSrc = JNull
  /\ viewingOriginal = TRUE
  /\ generationError = JNull
  /\ payload = JNull
  /\ response = JNull
  /\ outcome = NoOutcome

Upload        == \E f \in Files : handleImageUpload(f)
ReadCompletes == \E f \in Files : ReadDone(f)
ReadFails     == \E f \in Files : ReadFail(f)
AnalyzeDone   == \E i \in 1..Len(analyzeReqs), resp \in AnalyzeResponses : AnalyzeSettle(i, resp)
ContinueDone  == \E i \in 1..Len(contReqs), resp \in ContinueResponses : ContinueSettle(i, resp)
MouseDown     == \E c \in AppClientPoints : handleMouseDown(c)
MouseMove     == \E c \in AppClientPoints : handleMouseMove(c)
Wheel         == \E d \in AppWheelDeltas, c \in AppClientPoints : handleWheel(d, c)

Next ==
  \/ Upload
  \/ ReadCompletes
  \/ ReadFails
  \/ handleAnalyzeClick
  \/ AnalyzeDone
  \/ ClearClick
  \/ PreviewClick
  \/ CloseClick
  \/ CloseTimerFires
  \/ ResetClick
  \/ viewOriginal
  \/ viewPredicted
  \/ MouseDown
  \/ handleMouseUp
  \/ MouseMove
  \/ Wheel
  \/ handleGenerateContinuation
  \/ ContinueDone
  \/ DetachedSettle

Spec == Init /\ [][Next]_vars

(***************************************************************************)
(* Specification of the viewer: one mounted ChartModal, opened after a     *)
(* successful analysis, under the full set of pointer and wheel inputs.    *)
(***************************************************************************)
ViewerInit ==
  /\ imageFile = PngFile
  /\ imageBase64 = Str(fileToBase64(PngFile))
  /\ analysis = HoldPayload
  /\ isLoading = FALSE
  /\ error = JNull
  /\ isModalOpen = TRUE
  /\ reads = [f \in Files |-> 0]
  /\ analyzeReqs = << >>
  /\ contReqs = << >>
  /\ detached = 0
  /\ timers \in {0, 1}
  /\ continueCalls = 0
  /\ analyzedWith = Call(fileToBase64(PngFile), PngFile.type)
  /\ scale = 1
  /\ position = Origin
  /\ isDragging = FALSE
  /\ dragStartPos = Origin
  /\ isGenerating = FALSE
  /\ continuedImageSrc = JNull
  /\ viewingOriginal = TRUE
  /\ generationError = JNull
  /\ payload = JNull
  /\ response = JNull
  /\ outcome = NoOutcome

ViewerMouseDown == \E c \in ViewerClientPoints : handleMouseDown(c)
ViewerMouseMove == \E c \in ViewerClientPoints : handleMouseMove(c)
ViewerWheel     == \E d \in ViewerWheelDeltas, c \in ViewerClientPoints : handleWheel(d, c)

ViewerNext ==
  \/ PreviewClick
  \/ CloseClick
  \/ CloseTimerFires
  \/ ResetClick
  \/ viewOriginal
  \/ viewPredicted
  \/ ViewerMouseDown
  \/ handleMouseUp
  \/ ViewerMouseMove
  \/ ViewerWheel
  \/ handleGenerateContinuation
  \/ ContinueDone

ViewerSpec == ViewerInit /\ [][ViewerNext]_vars

(***************************************************************************)
(* Specification of the viewport transform alone: the opened viewer under  *)
(* wheel, pointer and reset input.                                         *)
(***************************************************************************)
ViewportInit == ViewerInit /\ timers = 0

ViewportMouseDown == \E c \in ClientPoints : handleMouseDown(c)
ViewportMouseMove == \E c \in ClientPoints : handleMouseMove(c)
ViewportWheel     == \E d \in WheelDeltas, c \in ClientPoints : handleWheel(d, c)

ViewportNext ==
  \/ ViewportWheel
  \/ ViewportMouseDown
  \/ ViewportMouseMove
  \/ handleMouseUp
  \/ ResetClick

ViewportSpec == ViewportInit /\ [][ViewportNext]_vars

(***************************************************************************)
(* Specification of the validation: analyzeChart applied to one decoded    *)
(* payload drawn from the field values below.                              *)
(***************************************************************************)
PredictionValues     == { Undefined, Str(""), Str("sideways drift"), Num(42) }
RecommendationValues == { Undefined, Str("BUY"), Str("SELL"), Str("HOLD"),
                          Str("buy"), Str("STRONG_BUY") }
ConfidenceValues     == { Undefined, Num(55), Num(0), Num(150), Str("55") }
RationaleValues      == { Undefined, Str(""), Str("range-bound"),
                          Obj([text |-> Str("range-bound")]) }
TypeValues           == { Undefined, Str("line"), Str("arrow"), Str("curve") }
PointValues          == { Undefined, Point(10, 50), Point(0, 0),
                          Obj([x |-> Num(10), y |-> Undefined]),
                          Obj([x |-> Str("10"), y |-> Num(50)]) }
AnnotationValues ==
  { Undefined, JNull } \cup
  { Obj([type |-> ty, start |-> st, end |-> en]) :
      ty \in TypeValues, st \in PointValues, en \in PointValues }

Payloads ==
  { Obj([prediction |-> p, recommendation |-> r, confidence |-> c,
         rationale |-> ra, annotation |-> a]) :
      p \in PredictionValues, r \in RecommendationValues, c \in ConfidenceValues,
      ra \in RationaleValues, a \in AnnotationValues }

ValidateInit ==
  /\ payload \in Payloads
  /\ response = JNull
  /\ outcome = NoOutcome
  /\ imageFile = JNull
  /\ imageBase64 = JNull
  /\ analysis = JNull
  /\ isLoading = FALSE
  /\ error = JNull
  /\ isModalOpen = FALSE
  /\ reads = [f \in Files |-> 0]
  /\ analyzeReqs = << >>
  /\ contReqs = << >>
  /\ detached = 0
  /\ timers = 0
  /\ continueCalls = 0
  /\ analyzedWith = NoCall
  /\ scale = 1
  /\ position = Origin
  /\ isDragging = FALSE
  /\ dragStartPos = Origin
  /\ isGenerating = FALSE
  /\ continuedImageSrc = JNull
  /\ viewingOriginal = TRUE
  /\ generationError = JNull

\* The service returns the payload as JSON text; analyzeChart parses and
\* validates it.
Validate ==
  /\ outcome = NoOutcome
  /\ outcome' = analyzeChart(JsonText(payload))
  /\ UNCHANGED << payload, response, appVars, flightVars, viewVars, genVars >>

ValidateNext == Validate

ValidateSpec == ValidateInit /\ [][ValidateNext]_vars

(***************************************************************************)
(* Specification of the continuation scan: continueChart applied to one    *)
(* generateContent response drawn from the parts below.                    *)
(***************************************************************************)
MaxParts      == 3   \* content parts of one candidate
MaxCandidates == 2   \* candidates of one response

PartValues == { TextPart("here is the chart"), ImagePart("R0lGODlh"),
                ImagePart("iVBORw0KGgo") }

PartLists == UNION { [1..n -> PartValues] : n \in 0..MaxParts }

Responses ==
  { ContentError("429 quota exceeded") } \cup
  { Content(cs) : cs \in UNION { [1..n -> PartLists] : n \in 0..MaxCandidates } }

ContinueInit ==
  /\ response \in Responses
  /\ payload = JNull
  /\ outcome = NoOutcome
  /\ imageFile = JNull
  /\ imageBase64 = JNull
  /\ analysis = JNull
  /\ isLoading = FALSE
  /\ error = JNull
  /\ isModalOpen = FALSE
  /\ reads = [f \in Files |-> 0]
  /\ analyzeReqs = << >>
  /\ contReqs = << >>
  /\ detached = 0
  /\ timers = 0
  /\ continueCalls = 0
  /\ analyzedWith = NoCall
  /\ scale = 1
  /\ position = Origin
  /\ isDragging = FALSE
  /\ dragStartPos = Origin
  /\ isGenerating = FALSE
  /\ continuedImageSrc = JNull
  /\ viewingOriginal = TRUE
  /\ generationError = JNull

\* The service answers with the response; continueChart scans it.
Continue ==
  /\ outcome = NoOutcome
  /\ outcome' = continueChart(response)
  /\ UNCHANGED << payload, response, appVars, flightVars, viewVars, genVars >>

ContinueNext == Continue

ContinueSpec == ContinueInit /\ [][ContinueNext]_vars

(***************************************************************************)
(* Properties                                                              *)
(***************************************************************************)
Validated == outcome # NoOutcome

Literals == { "BUY", "SELL", "HOLD" }

Field(p, path) ==
  IF Len(path) = 1 THEN Get(p, path[1])
  ELSE IF Len(path) = 2 THEN Get(Get(p, path[1]), path[2])
  ELSE Get(Get(Get(p, path[1]), path[2]), path[3])

RequiredPaths ==
  { << "prediction" >>, << "recommendation" >>, << "confidence" >>,
    << "rationale" >>, << "annotation" >>,
    << "annotation", "type" >>, << "annotation", "start" >>, << "annotation", "end" >>,
    << "annotation", "start", "x" >>, << "annotation", "start", "y" >>,
    << "annotation", "end", "x" >>, << "annotation", "end", "y" >> }

MissingRequired(p) == \E path \in RequiredPaths : Field(p, path) = Undefined

RecommendationIsLiteral(p) ==
  /\ Get(p, "recommendation").t = "string"
  /\ Get(p, "recommendation").s \in Literals

\* C1: every payload with a required field missing, or with a recommendation
\* that is not exactly BUY, SELL or HOLD, is rejected: analyzeChart throws and
\* returns no result.
C1_RejectsMissingOrUnlisted ==
  (Validated /\ (MissingRequired(payload) \/ ~RecommendationIsLiteral(payload)))
    => (~outcome.ok /\ outcome.value = JNull)

\* A payload valid in every other field whose recommendation is the
\* lower-case 'buy' has been rejected.
C1_Witness ==
  /\ Validated
  /\ payload = Obj([prediction |-> Str("sideways drift"), recommendation |-> Str("buy"),
                    confidence |-> Num(55), rationale |-> Str("range-bound"),
                    annotation |-> Obj([type |-> Str("line"),
                                        start |-> Point(10, 50), end |-> Point(0, 0)])])
  /\ ~outcome.ok

IsNumericPoint(pt) ==
  /\ pt.t = "object"
  /\ Get(pt, "x").t = "number"
  /\ Get(pt, "y").t = "number"

\* The rules of section 4.1 of the specification.
Conforms(p) ==
  /\ Get(p, "prediction").t = "string"
  /\ Get(p, "rationale").t = "string"
  /\ RecommendationIsLiteral(p)
  /\ Get(p, "confidence").t = "number"
  /\ Get(p, "annotation").t = "object"
  /\ Field(p, << "annotation", "type" >>).t = "string"
  /\ IsNumericPoint(Field(p, << "annotation", "start" >>))
  /\ IsNumericPoint(Field(p, << "annotation", "end" >>))

\* C2: every payload that conforms to the rules of section 4.1 (prediction and
\* rationale any strings, recommendation a literal, confidence any number,
\* annotation with a type and numeric points) is accepted and returned with
\* every field as it was received.
C2_AcceptsConformingUnchanged ==
  (Validated /\ Conforms(payload)) => (outcome.ok /\ outcome.value = payload)

\* C3: every payload whose prediction or rationale is present but is not a
\* string is rejected.
C3_RejectsNonStringText ==
  (/\ Validated
   /\ \/ Get(payload, "prediction") # Undefined /\ Get(payload, "prediction").t # "string"
      \/ Get(payload, "rationale") # Undefined /\ Get(payload, "rationale").t # "string")
    => ~outcome.ok

IssuesContinue == Len(contReqs') > Len(contReqs)
SettlesContinue == Len(contReqs') < Len(contReqs)

ValidationMessages ==
  { Str(AnalyzePrefix \o InvalidStructureMessage), Str(AnalyzePrefix \o TypeErrorMessage) }

\* C4: when the payload the service returned fails validation, the analyze
\* action completes with analysis null, the busy flag clear and the
\* analysis-failed message as the error; and the App never holds a payload
\* that the validation rejects.
C4_RejectedPayloadNeverStored ==
  [][ /\ (analysis' = JNull \/ ~InvalidStructure(analysis'))
      /\ \A i \in 1..Len(analyzeReqs), resp \in AnalyzeResponses :
           (/\ AnalyzeSettle(i, resp)
            /\ resp.kind = "text" /\ resp.parses /\ InvalidStructure(resp.json))
             => (/\ analysis' = JNull
                 /\ error' \in ValidationMessages
                 /\ ~isLoading'
                 /\ ~Visible') ]_vars

\* The analyze action has completed with the invalid-structure message and no
\* result.
C4_Witness ==
  /\ error = Str(AnalyzePrefix \o InvalidStructureMessage)
  /\ analysis = JNull
  /\ ~isLoading
  /\ analyzeReqs = << >>

\* C5: whenever continueChart is called, no analyze request is in flight, the
\* App holds a non-null analysis that passed the validation, and that analysis
\* is the one passed to the call.
C5_ContinueOnlyAfterAnalysis ==
  [][ IssuesContinue =>
        (/\ analysis # JNull
         /\ ~InvalidStructure(analysis)
         /\ ~isLoading
         /\ analyzeReqs = << >>
         /\ contReqs'[Len(contReqs')].analysis = analysis) ]_vars

\* A continuation request for the App's current analysis is in flight.
C5_Witness ==
  /\ Len(contReqs) = 1
  /\ contReqs[1].analysis = analysis
  /\ isGenerating

\* C6: at most one analyze request and at most one continuation request is
\* outstanding at any time.
C6_OneRequestInFlight ==
  Len(analyzeReqs) <= 1 /\ Len(contReqs) + detached <= 1

\* C7: a continuation response that arrives while the viewer is closed changes
\* none of the viewer's displayed state.
C7_LateResponseIgnored ==
  [][ (SettlesContinue /\ ~isModalOpen)
        => UNCHANGED << continuedImageSrc, viewingOriginal, generationError,
                        scale, position >> ]_vars

\* C8 as stated: at most one continueChart call is issued for one analysis
\* result.
C8_AtMostOneCallPerAnalysis ==
  continueCalls <= 1

\* C8 as amended: a continueChart call is issued only while the viewer holds
\* no generated image and its busy flag is clear.
C8_NoCallWhileImageHeldOrBusy ==
  [][ IssuesContinue => (~Truthy(continuedImageSrc) /\ ~isGenerating) ]_vars

\* A second call for the same analysis result is in flight.
C8_Witness ==
  /\ continueCalls = 2
  /\ Len(contReqs) >= 1
  /\ contReqs[Len(contReqs)].analysis = analysis

\* C9: 1 <= scale <= 8 in every state of the viewer.
C9_ScaleClamped ==
  MIN_SCALE <= scale /\ scale <= MAX_SCALE

\* The viewer is at the upper clamp in the middle of a drag.
C9_Witness ==
  /\ Visible
  /\ scale = MAX_SCALE
  /\ isDragging

\* The pointer of a wheel event, in the container's coordinates.
ContainerPoint(c) == [x |-> c.x - ContainerRect.left, y |-> c.y - ContainerRect.top]

\* (P - pos) / s = (P - pos2) / s2, cross-multiplied.
SameImagePoint(P, s, pos, s2, pos2) ==
  /\ (P.x - pos.x) * s2 = (P.x - pos2.x) * s
  /\ (P.y - pos.y) * s2 = (P.y - pos2.y) * s

\* C10: a wheel event that changes the scale keeps the image point under the
\* pointer where it is, also when the new scale was clamped to 1 or 8.
C10_ZoomAnchored ==
  [][ \A d \in WheelDeltas, c \in ClientPoints :
        (handleWheel(d, c) /\ scale' # scale)
          => SameImagePoint(ContainerPoint(c), scale, position, scale', position') ]_vars

\* Zoomed from the rest state about a pointer below the container's origin,
\* without any drag.
C10_Witness ==
  /\ scale = 2
  /\ position = [x |-> 0, y |-> -8]
  /\ dragStartPos = Origin

\* C11: the Reset action yields scale = 1 and offset = (0,0) from every state
\* of the viewer it is taken in.
C11_ResetYieldsRest ==
  [][ ResetClick => (scale' = 1 /\ position' = Origin) ]_vars

\* The viewport is at rest in the middle of a drag of the generated image: the
\* drag began zoomed in, away from the origin.
C11_Witness ==
  /\ Visible
  /\ scale = 1
  /\ position = Origin
  /\ isDragging
  /\ dragStartPos # Origin
  /\ ~viewingOriginal

\* A step in which ChartModal.handleReset runs.
RunsHandleReset ==
  \/ ResetClick
  \/ CloseTimerFires
  \/ (viewOriginal /\ ~viewingOriginal)
  \/ (viewPredicted /\ viewingOriginal)
  \/ \E i \in 1..Len(contReqs), resp \in ContinueResponses :
       ContinueSettle(i, resp) /\ continueChart(resp).ok

\* C12: after every run of handleReset (reset button, view switch, successful
\* continuation, close timer) dragging is false.
C12_ResetClearsDragging ==
  [][ RunsHandleReset => ~isDragging' ]_vars

\* C13: in every state of the shown viewer, scale = 1 implies dragging is
\* false.
C13_RestAtScaleOne ==
  (Visible /\ scale = 1) => ~isDragging

\* C14: every transition that brings scale back to 1 from a larger value
\* leaves the offset at (0,0).
C14_OffsetZeroWhenScaleReturnsToOne ==
  [][ (scale > 1 /\ scale' = 1) => position' = Origin ]_vars

\* C15: the viewer shows the rest viewport at the moment it goes from closed
\* to open, and the delayed reset does not change the viewport of an open
\* viewer.
C15_ReopenShowsRest ==
  [][ /\ (~isModalOpen /\ isModalOpen') => (scale' = 1 /\ position' = Origin)
      /\ (isModalOpen /\ CloseTimerFires) => UNCHANGED << scale, position >> ]_vars

\* C16: every step that changes the displayed image leaves the viewport at
\* scale = 1 and offset = (0,0).
C16_ViewSwitchResetsViewport ==
  [][ (displayImageSrc' # displayImageSrc) => (scale' = 1 /\ position' = Origin) ]_vars

\* The generated image is displayed at rest while a drag that began on the
\* zoomed original is still in progress: the switch was the automatic one.
C16_Witness ==
  /\ Visible
  /\ ~viewingOriginal
  /\ Truthy(continuedImageSrc)
  /\ scale = 1
  /\ position = Origin
  /\ isDragging

Continued == response # JNull /\ outcome # NoOutcome

\* The content parts of the response: those of its first candidate.
ResponseParts(resp) ==
  IF Len(resp.candidates) = 0 THEN << >> ELSE resp.candidates[1]

CarriesInlineData(part) == Get(part, "inlineData").t = "object"

\* C17: continueChart returns the data of the first part, in order, that
\* carries inline data, and fails with the no-image message exactly when no
\* part of the response carries inline data.
C17_FirstInlinePartOrNoImage ==
  (Continued /\ response.kind = "content") =>
    LET parts == ResponseParts(response)
        carrying == { i \in 1..Len(parts) : CarriesInlineData(parts[i]) }
    IN IF carrying = {}
         THEN outcome = Reject(ContinuePrefix \o NoImageMessage)
         ELSE LET first == CHOOSE i \in carrying : \A j \in carrying : i <= j
              IN outcome = Resolve(Get(Get(parts[first], "inlineData"), "data"))

\* C18: when a continuation request fails (service error or no image part),
\* the image view, the stored generated image, the scale and the offset are
\* unchanged, so the displayed image stays what it was; the generation error
\* is set to the failure's message and the busy flag is cleared.
C18_FailureKeepsView ==
  [][ \A i \in 1..Len(contReqs), resp \in ContinueResponses :
        (ContinueSettle(i, resp) /\ ~continueChart(resp).ok)
          => (/\ UNCHANGED << viewingOriginal, continuedImageSrc, scale, position >>
              /\ displayImageSrc' = displayImageSrc
              /\ generationError' = Str(continueChart(resp).message)
              /\ ~isGenerating') ]_vars

\* A continuation has failed with the no-image message while the original
\* image is shown zoomed in and panned.
C18_Witness ==
  /\ Visible
  /\ generationError = Str(ContinuePrefix \o NoImageMessage)
  /\ ~isGenerating
  /\ contReqs = << >>
  /\ viewingOriginal
  /\ continuedImageSrc = JNull
  /\ scale > 1
  /\ position # Origin

\* C19: every continueChart call carries the image bytes and the MIME type
\* that were sent in the analyzeChart call whose result is passed to it, and
\* that result's recommendation and prediction.
C19_ContinueCarriesAnalyzedImage ==
  [][ IssuesContinue =>
        LET call == contReqs'[Len(contReqs')]
        IN /\ call.data = analyzedWith.data
           /\ call.mime = analyzedWith.mime
           /\ Get(call.analysis, "recommendation") = Get(analysis, "recommendation")
           /\ Get(call.analysis, "prediction") = Get(analysis, "prediction") ]_vars

NoImageAvailable == imageFile = JNull \/ ~Truthy(imageBase64)

\* C20: when analysis is requested while no image is available, no request is
\* sent, the busy flag stays false, the error is the upload guidance message,
\* and the rest of the App state is unchanged.
C20_NoImageNoCall ==
  [][ (handleAnalyzeClick /\ NoImageAvailable)
        => (/\ analyzeReqs' = analyzeReqs
            /\ ~isLoading'
            /\ error' = Str(PleaseUploadMessage)
            /\ UNCHANGED << imageFile, imageBase64, analysis, isModalOpen >>) ]_vars

\* The guidance message is shown for a selected file whose read is still
\* pending.
C20_Witness ==
  /\ error = Str(PleaseUploadMessage)
  /\ imageFile # JNull
  /\ imageBase64 = JNull
  /\ reads[imageFile] > 0
  /\ analyzeReqs = << >>
  /\ ~isLoading

\* The Analyze button is rendered and not disabled.
AnalyzeEnabled == imageFile # JNull /\ ~isLoading

\* The Generate Continuation button is rendered and not disabled.
GenerateEnabled == Mounted /\ ~Truthy(continuedImageSrc) /\ ~isGenerating

ImageStillHeld ==
  /\ imageFile # JNull
  /\ imageFile' = imageFile
  /\ imageBase64' = imageBase64

\* C21 as stated: when the response of an analyze or continuation request
\* arrives, success or failure, the busy flag is false, the uploaded image is
\* still held and the triggering action is enabled again.
C21_EveryResponseLeavesActionEnabled ==
  [][ /\ \A i \in 1..Len(analyzeReqs), resp \in AnalyzeResponses :
           AnalyzeSettle(i, resp) => (~isLoading' /\ ImageStillHeld /\ AnalyzeEnabled')
      /\ \A i \in 1..Len(contReqs), resp \in ContinueResponses :
           ContinueSettle(i, resp) => (~isGenerating' /\ ImageStillHeld /\ GenerateEnabled') ]_vars

\* C21 as amended: when a response arrives the busy flag is false and the
\* uploaded image is still held; the Analyze action is enabled again after
\* every analyze response, and the Generate action is enabled again after a
\* failed continuation unless a generated image is held.
C21_FailureLeavesRetryableState ==
  [][ /\ \A i \in 1..Len(analyzeReqs), resp \in AnalyzeResponses :
           AnalyzeSettle(i, resp) => (~isLoading' /\ ImageStillHeld /\ AnalyzeEnabled')
      /\ \A i \in 1..Len(contReqs), resp \in ContinueResponses :
           ContinueSettle(i, resp) =>
             (/\ ~isGenerating'
              /\ ImageStillHeld
              /\ (~continueChart(resp).ok /\ ~Truthy(continuedImageSrc)) => GenerateEnabled'
              /\ continueChart(resp).ok => Truthy(continuedImageSrc')) ]_vars

\* The only continuation request of this analysis has failed with a service
\* error: the viewer is open with the Generate button enabled.
C21_Witness ==
  /\ Visible
  /\ generationError = Str(ContinuePrefix \o "429 quota exceeded")
  /\ GenerateEnabled
  /\ contReqs = << >>
  /\ detached = 0
  /\ continueCalls = 1

\* The message of the error that made the analyze call fail.
UnderlyingMessage(resp) ==
  IF resp.kind = "error" THEN resp.message
  ELSE IF ~resp.parses THEN SyntaxErrorMessage
  ELSE IF resp.json.t \in {"null", "undefined"} THEN TypeErrorMessage
  ELSE InvalidStructureMessage

\* C22: a service error, malformed JSON text and schema-invalid JSON all make
\* analyzeChart throw an error whose message is the analysis-failed prefix
\* followed by the underlying message, and the caller stores that message
\* text in error and nothing else that tells the failure modes apart.
C22_OneFailureKind ==
  [][ \A i \in 1..Len(analyzeReqs), resp \in AnalyzeResponses :
        (AnalyzeSettle(i, resp) /\ ~analyzeChart(resp).ok)
          => (/\ analyzeChart(resp) = Reject(AnalyzePrefix \o UnderlyingMessage(resp))
              /\ error' = Str(AnalyzePrefix \o UnderlyingMessage(resp))
              /\ ~isLoading'
              /\ UNCHANGED << imageFile, imageBase64, analysis, isModalOpen >>) ]_vars

\* The analyze call has failed on malformed JSON text.
C22_Witness ==
  /\ error = Str(AnalyzePrefix \o SyntaxErrorMessage)
  /\ analysis = JNull
  /\ imageFile # JNull
  /\ ~isLoading
  /\ analyzeReqs = << >>

Minus(p, q) == [x |-> p.x - q.x, y |-> p.y - q.y]

\* C23: pointer-down enters the dragging state and records the pointer
\* position minus the offset as the anchor only when scale > 1, and changes
\* nothing at scale = 1; a pointer-move while dragging sets the offset to the
\* pointer position minus the anchor and leaves the scale alone.
C23_DragTransitions ==
  [][ /\ \A c \in ClientPoints :
           handleMouseDown(c) =>
             IF scale > 1
               THEN /\ isDragging'
                    /\ dragStartPos' = Minus(c, position)
                    /\ UNCHANGED << scale, position >>
               ELSE UNCHANGED << scale, position, isDragging, dragStartPos >>
      /\ \A c \in ClientPoints :
           (handleMouseMove(c) /\ isDragging) =>
             (/\ position' = Minus(c, dragStartPos)
              /\ UNCHANGED << scale, isDragging, dragStartPos >>) ]_vars

\* Zoomed to scale 2 about (8,24), pointer-down there (offset (0,-8), anchor
\* (8,32)), then a pointer-move to (16,16).
C23_Witness ==
  /\ Visible
  /\ isDragging
  /\ scale = 2
  /\ dragStartPos = [x |-> 8, y |-> 32]
  /\ position = [x |-> 8, y |-> -16]

\* screen = offset + scale * (percentage / 100 * box size), times 100.
AtPercentage(screen, px, py) ==
  /\ 100 * (screen.x - position.x) = scale * px * BoxSize.width
  /\ 100 * (screen.y - position.y) = scale * py * BoxSize.height

AnnotationField(f, g) == Get(Get(Get(analysis, "annotation"), f), g).n

\* The two ends of the overlay are shown at offset + scale * (percentage / 100
\* * box size) of the annotation's start and end.
OverlayInLockstep ==
  OverlayShown =>
    /\ AtPercentage(OverlayStartOnScreen, AnnotationField("start", "x"), AnnotationField("start", "y"))
    /\ AtPercentage(OverlayEndOnScreen, AnnotationField("end", "x"), AnnotationField("end", "y"))

\* C24: while the overlay is shown the original image is displayed, its two
\* ends are where the transform of the image puts the annotation's start and
\* end, and it ends in an arrowhead exactly when the annotation's type is
\* 'arrow'.
C24_OverlayMatchesAnnotation ==
  OverlayShown =>
    /\ displayImageSrc = imageSrc
    /\ OverlayInLockstep
    /\ (OverlayLine.markerEnd = "url(#arrowhead)")
         <=> (Get(Get(analysis, "annotation"), "type") = Str("arrow"))

IssuesAnalyze == Len(analyzeReqs') > Len(analyzeReqs)

\* C25: whenever analyzeChart is called, the image data sent is the encoding
\* of the currently selected file, whose MIME type is sent with it.
C25_AnalyzeSendsSelectedFile ==
  [][ IssuesAnalyze =>
        LET call == analyzeReqs'[Len(analyzeReqs')]
        IN /\ call.mime = imageFile.type
           /\ call.data = fileToBase64(imageFile) ]_vars

\* C26: the error message and the analysis result are never both non-null,
\* and both are null while an analyze request is outstanding.
C26_ErrorAndAnalysisExclusive ==
  /\ ~(error # JNull /\ analysis # JNull)
  /\ isLoading => (error = JNull /\ analysis = JNull)

\* C27: when a wheel zoom happens during a drag, with the pointer where the
\* drag has put it, the anchor still matches the offset afterwards: a
\* pointer-move to the same position would leave the offset unchanged.
C27_NoJumpAfterZoomInDrag ==
  [][ \A d \in WheelDeltas, c \in ClientPoints :
        (handleWheel(d, c) /\ isDragging /\ position = Minus(c, dragStartPos))
          => position' = Minus(c, dragStartPos') ]_vars

====
